---- MODULE Spec2Model ----
(***************************************************************************)
(* The copy-on-write whiteout subsystem of unionfs-fuse (general.c) and    *)
(* the string helpers it is built on (string.c).                           *)
(*                                                                         *)
(* A C string is a sequence of one-character strings; its terminator is    *)
(* not stored, so strlen(s) = Len(s) and the terminator sits at the        *)
(* 0-based buffer index Len(s).                                            *)
(***************************************************************************)
EXTENDS Integers, Sequences, FiniteSets, TLC

VARIABLES
    fs,        \* the host filesystem: a set of <<components, kind>> entries
    cow,       \* uopt.cow_enabled
    last,      \* the whiteout operation that ran last, with its result
    fs0,       \* the filesystem as it was before that operation
    crashed,   \* the process died on an out-of-bounds access
    nops,      \* number of whiteout operations run so far
    bp,        \* build_path: one call, its input and its result
    wt,        \* whiteout_tag: one call, its input and its result
    so,        \* set_owner: one call, its input and its result
    sh,        \* string_hash: one call, its input and its result
    rc         \* two threads inside do_create_whiteout at the same time

vars == <<fs, cow, last, fs0, crashed, nops, bp, wt, so, sh, rc>>

-----------------------------------------------------------------------------
(* Bounds of the model *)

\* PATHLEN_MAX is 1024 in the program; the model scales the buffers down.
PATHLEN_MAX == 26
\* Number of whiteout operations in one run.
MaxOps == 2
\* build_path: largest max_len, most segments and longest segment tried.
MaxBuf == 7
MaxSegs == 3
MaxSegLen == 2
\* whiteout_tag: number of pieces a name is made of.
MaxPieces == 3
\* set_owner: user and group ids run over 0 .. MaxId.
MaxId == 2
\* string_hash: longest byte string hashed.
MaxHashLen == 7

-----------------------------------------------------------------------------
(* Program constants *)

ENAMETOOLONG == 36
EIO == 5
HIDETAG == <<"_", "H", "I", "D", "D", "E", "N", "~">>
METADIR == <<".", "u", "n", "i", "o", "n", "f", "s", "/">>

\* uopt.branches[i].path, 0-based; every branch root ends with a separator.
BranchPaths == << <<"/", "x", "/">>, <<"/", "y", "/">> >>
nbranches == Len(BranchPaths)
BranchIdx == 0 .. (nbranches - 1)
BranchPath(i) == BranchPaths[i + 1]

-----------------------------------------------------------------------------
(* C string helpers *)

Max(a, b) == IF a >= b THEN a ELSE b

\* s[i] for a 0-based index i; the terminator reads as "".
CharAt(s, i) == IF i < Len(s) THEN s[i + 1] ELSE ""

\* strstr(s, t): the 0-based offset of the first occurrence of t in s, or -1.
StrStr(s, t) ==
    LET hits == {i \in 0 .. (Len(s) - Len(t)) : SubSeq(s, i + 1, i + Len(t)) = t}
    IN  IF hits = {} THEN -1 ELSE CHOOSE i \in hits : \A j \in hits : i <= j

\* strrchr(s, '/'): the 0-based offset of the last separator, or -1.
StrRChr(s) ==
    LET hits == {i \in 0 .. (Len(s) - 1) : s[i + 1] = "/"}
    IN  IF hits = {} THEN -1 ELSE CHOOSE i \in hits : \A j \in hits : i >= j

-----------------------------------------------------------------------------
(* string.c *)

\* whiteout_tag: the offset of the tag in fname, or -1 for NULL.
whiteout_tag(fname) ==
    LET tag == StrStr(fname, HIDETAG)
    IN  IF tag # -1 /\ tag # 0 /\ Len(fname) - tag = Len(HIDETAG)
        THEN tag ELSE -1

\* The loop of build_path from argument i on: buf is what the buffer holds
\* (len = path - start = Len(buf)), wmax the highest index written so far.
RECURSIVE bp_loop(_, _, _, _, _)
bp_loop(max_len, args, i, buf, wmax) ==
    IF i > Len(args)
    THEN [res |-> 0, buf |-> buf, wmax |-> Max(wmax, Len(buf))]
    ELSE
      LET arg   == args[i]
          prevc == CharAt(buf, Len(buf) - 1)
          first == CharAt(arg, 0)
          both  == prevc = "/" /\ first = "/"
          none  == prevc # "/" /\ first # "/"
          buf1  == IF both THEN SubSeq(buf, 1, Len(buf) - 1)
                   ELSE IF none THEN buf \o <<"/">>
                   ELSE buf
          w1    == IF none THEN Max(wmax, Len(buf)) ELSE wmax
      IN  IF Len(buf1) + Len(arg) + 1 > max_len
          THEN [res |-> -ENAMETOOLONG, buf |-> buf1,
                wmax |-> Max(w1, Len(buf1))]
          ELSE bp_loop(max_len, args, i + 1, buf1 \o arg,
                       IF Len(arg) > 0
                       THEN Max(w1, Len(buf1) + Len(arg) - 1) ELSE w1)

\* build_path with the first length check off by one (>= for >).
build_path_strict(max_len, args) ==
    IF Len(args) = 0 \/ Len(args[1]) = 0
    THEN [res |-> -EIO, buf |-> <<>>, wmax |-> 0]
    ELSE IF Len(args[1]) + 1 >= max_len
    THEN [res |-> -ENAMETOOLONG, buf |-> <<>>, wmax |-> 0]
    ELSE bp_loop(max_len, args, 2, args[1], Len(args[1]) - 1)

\* build_path(path, max_len, ..., args, NULL): res is the return value, buf
\* the string left in path, wmax the highest buffer index written.
build_path(max_len, args) ==
    IF Len(args) = 0 \/ Len(args[1]) = 0
    THEN [res |-> -EIO, buf |-> <<>>, wmax |-> 0]
    ELSE IF Len(args[1]) + 1 > max_len
    THEN [res |-> -ENAMETOOLONG, buf |-> <<>>, wmax |-> 0]
    ELSE bp_loop(max_len, args, 2, args[1], Len(args[1]) - 1)

\* BUILD_PATH(dest, ...): build_path with the fixed capacity.
BUILD_PATH(args) == build_path(PATHLEN_MAX, args)

\* u_dirname: everything before the last separator, or "." without one.
u_dirname(path) ==
    LET ri == StrRChr(path)
    IN  IF ri # -1 THEN SubSeq(path, 1, ri) ELSE <<".">>

\* a ^ b for two values of at most eight bits.
RECURSIVE BitXor(_, _)
BitXor(a, b) ==
    IF a = 0 /\ b = 0 THEN 0
    ELSE (((a % 2) + (b % 2)) % 2) + 2 * BitXor(a \div 2, b \div 2)

\* The value of *str in an expression: the byte itself where char is
\* unsigned, the byte minus 256 for bytes from 0x80 on where char is signed.
CharValue(byte, schar) == IF schar /\ byte >= 128 THEN byte - 256 ELSE byte

\* One round of the loop of elfhash on the 32-bit unsigned hash.  At the
\* head of the loop hash < 2^28, since the round before cleared the top
\* nibble.  The 32-bit sum (hash << 4) + c is held as its top nibble, top,
\* and its low 28 bits, low, so that no intermediate value needs more than
\* 31 bits: highbyte = top * 2^28 and highbyte >> 24 = top * 16.
elf_round(hash, c) ==
    LET t    == hash \div (2 ^ 24)
        sum  == (hash % (2 ^ 24)) * 16 + c
        top  == IF sum < 0 THEN (t + 15) % 16
                ELSE IF sum >= 2 ^ 28 THEN (t + 1) % 16
                ELSE t
        low  == IF sum < 0 THEN sum + 2 ^ 28
                ELSE IF sum >= 2 ^ 28 THEN sum - 2 ^ 28
                ELSE sum
        byte == low % 256
    IN  IF top # 0
        THEN low - byte + BitXor(byte, top * 16)
        ELSE low

\* elfhash(str): str is a sequence of byte values 1 .. 255; schar tells
\* whether char is a signed type in the build.
RECURSIVE elf_loop(_, _, _)
elf_loop(str, schar, hash) ==
    IF str = <<>> THEN hash
    ELSE elf_loop(Tail(str), schar,
                  elf_round(hash, CharValue(Head(str), schar)))

elfhash(str, schar) == elf_loop(str, schar, 0)

\* string_hash(s)
string_hash(s, schar) == elfhash(s, schar)

-----------------------------------------------------------------------------
(* The host filesystem.  An entry is <<components, kind>>: the components  *)
(* of its absolute path and "dir" or "file".  The root directory <<>> is   *)
(* not stored.  There are no symbolic links and no "." or ".." names.      *)

\* The components of path s: its maximal runs of non-separator characters.
RECURSIVE Split(_)
Split(s) ==
    IF s = <<>> THEN <<>>
    ELSE IF s[1] = "/" THEN Split(Tail(s))
    ELSE LET rest == Split(Tail(s))
         IN  IF Len(s) > 1 /\ s[2] # "/"
             THEN <<(<<s[1]>> \o rest[1])>> \o Tail(rest)
             ELSE <<(<<s[1]>>)>> \o rest

KindOf(f, comps) ==
    IF comps = <<>> THEN "dir"
    ELSE IF <<comps, "dir">> \in f THEN "dir"
    ELSE IF <<comps, "file">> \in f THEN "file"
    ELSE "none"

HasChildren(f, comps) ==
    \E e \in f : Len(e[1]) > Len(comps) /\ SubSeq(e[1], 1, Len(comps)) = comps

\* What path p resolves to: "none" when a component is missing or when a
\* component that is followed by a separator is not a directory.
Resolve(f, p) ==
    LET comps == Split(p)
        k     == KindOf(f, comps)
    IN  IF \E n \in 0 .. (Len(comps) - 1) : KindOf(f, SubSeq(comps, 1, n)) # "dir"
        THEN "none"
        ELSE IF k = "file" /\ Len(p) > 0 /\ p[Len(p)] = "/" THEN "none"
        ELSE k

\* lstat(p, &buf): 0 when p names an entry, -1 otherwise.
lstat(f, p) == IF Len(p) > 0 /\ Resolve(f, p) # "none" THEN 0 ELSE -1

\* open(p, O_WRONLY | O_CREAT, ...) followed by close().
sys_open_creat(f, p) ==
    LET comps == Split(p)
        k     == Resolve(f, p)
    IN  IF Len(p) = 0 \/ p[Len(p)] = "/" THEN [fs |-> f, res |-> -1]
        ELSE IF k = "file" THEN [fs |-> f, res |-> 0]
        ELSE IF k = "dir" THEN [fs |-> f, res |-> -1]
        ELSE IF comps # <<>>
                /\ \A n \in 0 .. (Len(comps) - 1) :
                       KindOf(f, SubSeq(comps, 1, n)) = "dir"
        THEN [fs |-> f \cup {<<comps, "file">>}, res |-> 0]
        ELSE [fs |-> f, res |-> -1]

\* mkdir(p, mode): fails when p exists or its parent is no directory.
sys_mkdir(f, p) ==
    LET comps == Split(p)
    IN  IF comps # <<>> /\ KindOf(f, comps) = "none"
           /\ \A n \in 0 .. (Len(comps) - 1) :
                  KindOf(f, SubSeq(comps, 1, n)) = "dir"
        THEN [fs |-> f \cup {<<comps, "dir">>}, res |-> 0]
        ELSE [fs |-> f, res |-> -1]

\* unlink(p): removes a file.
sys_unlink(f, p) ==
    IF Resolve(f, p) = "file"
    THEN [fs |-> f \ {<<Split(p), "file">>}, res |-> 0]
    ELSE [fs |-> f, res |-> -1]

\* rmdir(p): removes an empty directory.
sys_rmdir(f, p) ==
    IF Resolve(f, p) = "dir" /\ Split(p) # <<>> /\ ~HasChildren(f, Split(p))
    THEN [fs |-> f \ {<<Split(p), "dir">>}, res |-> 0]
    ELSE [fs |-> f, res |-> -1]

\* path_is_dir: NOT_EXISTING, IS_DIR or IS_FILE.
path_is_dir(f, p) ==
    IF lstat(f, p) = -1 THEN "NOT_EXISTING"
    ELSE IF Resolve(f, p) = "dir" THEN "IS_DIR"
    ELSE "IS_FILE"


-----------------------------------------------------------------------------
(* Collaborators of general.c that live in other files of the program *)

\* path_create(dname, ...): creates, one after the other, the directories of
\* comps that are missing; stops at the first that cannot be created.
RECURSIVE path_create(_, _, _)
path_create(f, comps, n) ==
    IF n > Len(comps) THEN f
    ELSE LET c == SubSeq(comps, 1, n)
         IN  IF KindOf(f, c) = "dir" THEN path_create(f, comps, n + 1)
             ELSE IF KindOf(f, c) = "file" THEN f
             ELSE path_create(f \cup {<<c, "dir">>}, comps, n + 1)

\* path_create_cutlast(path, branch, branch): makes the directories of
\* u_dirname(path) below the root of the branch.
path_create_cutlast(f, path, branch) ==
    path_create(f, Split(BranchPath(branch) \o u_dirname(path)), 1)

\* find_rorw_branch(path): the first branch that holds an entry at path, of
\* any rank and mode, or -1.
find_rorw_branch(f, path) ==
    LET found == {i \in BranchIdx :
                    LET b == BUILD_PATH(<<BranchPath(i), path>>)
                    IN  b.res = 0 /\ lstat(f, b.buf) = 0}
    IN  IF found = {} THEN -1
        ELSE CHOOSE i \in found : \A j \in found : i <= j

-----------------------------------------------------------------------------
(* general.c *)

\* filedir_hidden(path, length): 1 when path[0..length) plus the tag names
\* an entry, 0 when it does not, -ENAMETOOLONG when the tag does not fit.
filedir_hidden(f, c, path, length) ==
    IF ~c THEN 0
    ELSE LET len == IF length = 0 THEN Len(path) ELSE length
         IN  IF len + Len(HIDETAG) >= PATHLEN_MAX THEN -ENAMETOOLONG
             ELSE IF lstat(f, SubSeq(path, 1, len) \o HIDETAG) = 0 THEN 1
             ELSE 0

\* while (*walk == '/') walk++;
RECURSIVE SkipSlashes(_, _)
SkipSlashes(s, walk) ==
    IF CharAt(s, walk) = "/" THEN SkipSlashes(s, walk + 1) ELSE walk

\* while (*walk != '\0' && *walk != '/') walk++;
RECURSIVE SkipName(_, _)
SkipName(s, walk) ==
    IF CharAt(s, walk) # "" /\ CharAt(s, walk) # "/"
    THEN SkipName(s, walk + 1) ELSE walk

\* The do-while loop of path_hidden, entered with walk.
RECURSIVE hidden_walk(_, _, _, _)
hidden_walk(f, c, whiteoutpath, walk) ==
    LET w1  == SkipName(whiteoutpath, walk)
        res == filedir_hidden(f, c, whiteoutpath, w1)
        w2  == SkipSlashes(whiteoutpath, w1)
    IN  IF res # 0 THEN res
        ELSE IF CharAt(whiteoutpath, w2) # "" 
        THEN hidden_walk(f, c, whiteoutpath, w2)
        ELSE 0

\* path_hidden that does not look at uopt.cow_enabled.
path_hidden_cow_or_not(f, c, path, branch) ==
    LET b == BUILD_PATH(<<BranchPath(branch), METADIR, path>>)
    IN  IF b.res # 0 THEN 0
        ELSE hidden_walk(f, TRUE, b.buf,
               SkipSlashes(b.buf,
                  Len(BranchPath(branch)) + Len(METADIR) - 1))

\* path_hidden(path, branch): the value returned.
path_hidden(f, c, path, branch) ==
    IF ~c THEN 0
    ELSE LET b == BUILD_PATH(<<BranchPath(branch), METADIR, path>>)
         IN  IF b.res # 0 THEN 0
             ELSE hidden_walk(f, c, b.buf,
                    SkipSlashes(b.buf,
                       Len(BranchPath(branch)) + Len(METADIR) - 1))

\* An out-of-bounds access is undefined: ub names what the build makes of
\* it.  "crash": the process dies there.  "null": a read past the branch
\* array yields a NULL path.  "junk": it yields a string that names nothing.
\* A write past a buffer that does not crash lands in unused stack.
UBOutcomes == {"crash", "null", "junk"}

\* The loop of remove_hidden, but one that gives up with an error at the
\* first marker it cannot delete.
RECURSIVE remove_loop_escalating(_, _, _, _, _, _, _)
remove_loop_escalating(f, path, i, maxbranch, ub, oob, seen) ==
    IF i > maxbranch \/ i >= nbranches
    THEN [fs |-> f, res |-> 0, oob |-> oob, dead |-> FALSE, seen |-> seen]
    ELSE
      LET b    == BUILD_PATH(<<BranchPath(i), METADIR, path>>)
          p    == b.buf \o HIDETAG
          kind == path_is_dir(f, p)
          del  == IF kind = "IS_FILE" THEN sys_unlink(f, p)
                  ELSE IF kind = "IS_DIR" THEN sys_rmdir(f, p)
                  ELSE [fs |-> f, res |-> 0]
      IN  IF b.res # 0 \/ Len(b.buf) + Len(HIDETAG) > PATHLEN_MAX
          THEN [fs |-> f, res |-> -ENAMETOOLONG, oob |-> oob, dead |-> FALSE,
                seen |-> seen \cup {i}]
          ELSE IF del.res # 0
          THEN [fs |-> f, res |-> -1, oob |-> oob, dead |-> FALSE,
                seen |-> seen \cup {i}]
          ELSE remove_loop_escalating(del.fs, path, i + 1, maxbranch, ub, oob,
                                      seen \cup {i})

\* The loop of remove_hidden from branch i on; seen are the branch indices
\* read, oob whether a buffer was written past its end.
RECURSIVE remove_loop(_, _, _, _, _, _, _)
remove_loop(f, path, i, maxbranch, ub, oob, seen) ==
    IF i > maxbranch
    THEN [fs |-> f, res |-> 0, oob |-> oob, dead |-> FALSE, seen |-> seen]
    ELSE IF i >= nbranches
    THEN IF ub = "crash"
         THEN [fs |-> f, res |-> 0, oob |-> oob, dead |-> TRUE,
               seen |-> seen \cup {i}]
         ELSE IF ub = "null" /\ BUILD_PATH(<<>>).res # 0
         THEN [fs |-> f, res |-> -ENAMETOOLONG, oob |-> oob, dead |-> FALSE,
               seen |-> seen \cup {i}]
         ELSE remove_loop(f, path, i + 1, maxbranch, ub, oob, seen \cup {i})
    ELSE
      LET b    == BUILD_PATH(<<BranchPath(i), METADIR, path>>)
          p    == b.buf \o HIDETAG
          over == Len(p) >= PATHLEN_MAX
          bo   == oob \/ b.wmax >= PATHLEN_MAX
          kind == path_is_dir(f, p)
          f1   == IF kind = "IS_FILE" THEN sys_unlink(f, p).fs
                  ELSE IF kind = "IS_DIR" THEN sys_rmdir(f, p).fs
                  ELSE f
      IN  IF b.res # 0
          THEN [fs |-> f, res |-> -ENAMETOOLONG, oob |-> bo, dead |-> FALSE,
                seen |-> seen \cup {i}]
          ELSE IF Len(b.buf) + Len(HIDETAG) > PATHLEN_MAX
          THEN [fs |-> f, res |-> -ENAMETOOLONG, oob |-> bo, dead |-> FALSE,
                seen |-> seen \cup {i}]
          ELSE IF over /\ ub = "crash"
          THEN [fs |-> f, res |-> 0, oob |-> TRUE, dead |-> TRUE,
                seen |-> seen \cup {i}]
          ELSE remove_loop(f1, path, i + 1, maxbranch, ub, bo \/ over,
                           seen \cup {i})

\* remove_hidden whose loop stops before maxbranch (i < maxbranch).
remove_hidden_below_maxbranch(f, c, path, maxbranch, ub) ==
    IF ~c
    THEN [fs |-> f, res |-> 0, oob |-> FALSE, dead |-> FALSE, seen |-> {}]
    ELSE remove_loop(f, path, 0,
                     IF maxbranch = -1 THEN nbranches - 1 ELSE maxbranch - 1,
                     ub, FALSE, {})

\* remove_hidden that cleans every branch, whatever maxbranch says.
remove_hidden_every_branch(f, c, path, maxbranch, ub) ==
    IF ~c
    THEN [fs |-> f, res |-> 0, oob |-> FALSE, dead |-> FALSE, seen |-> {}]
    ELSE remove_loop(f, path, 0, nbranches - 1, ub, FALSE, {})

\* remove_hidden(path, maxbranch)
remove_hidden(f, c, path, maxbranch, ub) ==
    IF ~c
    THEN [fs |-> f, res |-> 0, oob |-> FALSE, dead |-> FALSE, seen |-> {}]
    ELSE remove_loop(f, path, 0,
                     IF maxbranch = -1 THEN nbranches ELSE maxbranch,
                     ub, FALSE, {})

\* do_create_whiteout that builds the marker path from path, not metapath.
do_create_whiteout_in_data_tree(f, path, branch_rw, mode, ub) ==
    LET m    == BUILD_PATH(<<METADIR, path>>)
        f1   == path_create_cutlast(f, m.buf, branch_rw)
        b    == BUILD_PATH(<<BranchPath(branch_rw), path>>)
        p    == b.buf \o HIDETAG
        over == Len(p) >= PATHLEN_MAX
        made == IF mode = "WHITEOUT_FILE" THEN sys_open_creat(f1, p)
                ELSE sys_mkdir(f1, p)
    IN  IF m.res # 0 \/ b.res # 0
        THEN [fs |-> f, res |-> -1, oob |-> FALSE, dead |-> FALSE,
              seen |-> {}]
        ELSE IF over /\ ub = "crash"
        THEN [fs |-> f1, res |-> 0, oob |-> TRUE, dead |-> TRUE, seen |-> {}]
        ELSE [fs |-> made.fs, res |-> made.res, oob |-> over,
              dead |-> FALSE, seen |-> {}]

\* do_create_whiteout(path, branch_rw, mode)
do_create_whiteout(f, path, branch_rw, mode, ub) ==
    LET m    == BUILD_PATH(<<METADIR, path>>)
        f1   == path_create_cutlast(f, m.buf, branch_rw)
        b    == BUILD_PATH(<<BranchPath(branch_rw), m.buf>>)
        p    == b.buf \o HIDETAG
        over == Len(p) >= PATHLEN_MAX
        bo   == m.wmax >= PATHLEN_MAX \/ b.wmax >= PATHLEN_MAX
        made == IF mode = "WHITEOUT_FILE" THEN sys_open_creat(f1, p)
                ELSE sys_mkdir(f1, p)
    IN  IF m.res # 0
        THEN [fs |-> f, res |-> -1, oob |-> m.wmax >= PATHLEN_MAX,
              dead |-> FALSE, seen |-> {}]
        ELSE IF b.res # 0
        THEN [fs |-> f1, res |-> -1, oob |-> bo, dead |-> FALSE, seen |-> {}]
        ELSE IF over /\ ub = "crash"
        THEN [fs |-> f1, res |-> 0, oob |-> TRUE, dead |-> TRUE, seen |-> {}]
        ELSE [fs |-> made.fs, res |-> made.res, oob |-> bo \/ over,
              dead |-> FALSE, seen |-> {}]

\* hide_file(path, branch_rw)
hide_file(f, path, branch_rw, ub) ==
    do_create_whiteout(f, path, branch_rw, "WHITEOUT_FILE", ub)

\* hide_dir(path, branch_rw)
hide_dir(f, path, branch_rw, ub) ==
    do_create_whiteout(f, path, branch_rw, "WHITEOUT_DIR", ub)

\* maybe_whiteout without the branch lookup.
maybe_whiteout_unconditional(f, path, branch_rw, mode, ub) ==
    do_create_whiteout(f, path, branch_rw, mode, ub)

\* maybe_whiteout(path, branch_rw, mode)
maybe_whiteout(f, path, branch_rw, mode, ub) ==
    IF find_rorw_branch(f, path) # -1
    THEN do_create_whiteout(f, path, branch_rw, mode, ub)
    ELSE [fs |-> f, res |-> 0, oob |-> FALSE, dead |-> FALSE, seen |-> {}]

\* lchown(path, uid, gid): err is the errno the host answers with, 0 for
\* success; owner is the <<uid, gid>> pair of the entry.
sys_lchown(owner, uid, gid, err) ==
    IF err = 0 THEN [owner |-> <<uid, gid>>, res |-> 0]
    ELSE [owner |-> owner, res |-> -1]

\* set_owner(path): ctx is the fuse_get_context() of the request.  res is
\* the value returned, owner the owner of the entry afterwards, called
\* whether lchown was called.
set_owner(ctx, owner, err) ==
    IF ctx.uid # 0 /\ ctx.gid # 0
    THEN LET r == sys_lchown(owner, ctx.uid, ctx.gid, err)
         IN  IF r.res # 0
             THEN [res |-> -err, owner |-> r.owner, called |-> TRUE]
             ELSE [res |-> 0, owner |-> r.owner, called |-> TRUE]
    ELSE [res |-> 0, owner |-> owner, called |-> FALSE]


-----------------------------------------------------------------------------
(* The whiteout manager as a state machine: the request dispatcher calls   *)
(* one operation after the other, on any union path and branch.            *)

\* n copies of character ch.
RECURSIVE Rep(_, _)
Rep(ch, n) == IF n = 0 THEN <<>> ELSE <<ch>> \o Rep(ch, n - 1)

\* The union paths the operations are called with: plain, nested, with a
\* trailing or a doubled separator, a path whose marker path just fails
\* to fit the buffers and one whose metadata path does not fit.
UnionPaths ==
    { <<"/", "a">>,
      <<"/", "a", "/">>,
      <<"/", "a", "/", "b">>,
      <<"/", "/", "a", "/", "/", "b">>,
      <<"/", "a", "/">> \o Rep("b", 4),
      <<"/", "a", "/">> \o Rep("b", 13) }

Modes == {"WHITEOUT_FILE", "WHITEOUT_DIR"}

BranchRoot(i) == Split(BranchPath(i))[1]

\* The data tree a branch can start with: empty, a file "a", or (the
\* lower branch) a directory "a" holding a file "b".
DataTrees(i) ==
    { {}, { << <<BranchRoot(i), <<"a">> >>, "file" >> } }
    \cup IF i = 0 THEN {}
         ELSE { { << <<BranchRoot(i), <<"a">> >>, "dir" >>,
                  << <<BranchRoot(i), <<"a">>, <<"b">> >>, "file" >> } }

InitialFs ==
    { { << <<BranchRoot(0)>>, "dir" >>, << <<BranchRoot(1)>>, "dir" >> }
        \cup d0 \cup d1 :
      d0 \in DataTrees(0), d1 \in DataTrees(1) }

NoOp ==
    [op |-> "none", path |-> <<>>, branch |-> 0, mode |-> "none", res |-> 0,
     oob |-> FALSE, again |-> FALSE, seen |-> {}]

Idle == [st |-> "idle"]

Init ==
    /\ fs \in InitialFs
    /\ cow = TRUE
    /\ last = NoOp
    /\ fs0 = fs
    /\ crashed = FALSE
    /\ nops = 0
    /\ bp = Idle
    /\ wt = Idle
    /\ so = Idle
    /\ sh = Idle
    /\ rc = Idle

\* The bookkeeping every operation shares: r is what the operation returned.
Ran(op, path, branch, mode, r) ==
    /\ fs' = r.fs
    /\ fs0' = fs
    /\ crashed' = r.dead
    /\ nops' = nops + 1
    /\ last' = [op |-> op, path |-> path, branch |-> branch, mode |-> mode,
                res |-> r.res, oob |-> r.oob, seen |-> r.seen,
                again |-> /\ last.op = op /\ last.path = path
                          /\ last.branch = branch /\ last.mode = mode
                          /\ last.res = 0 /\ ~last.oob]
    /\ UNCHANGED <<cow, bp, wt, so, sh, rc>>

CanRun == ~crashed /\ nops < MaxOps

\* Only an operation that reaches an undefined access depends on ub: one
\* whose marker path may not fit the buffer, or a removal in "all" branches.
\* Every other operation is taken with ub = "junk" alone.
UBChoices(path, maxbranch) ==
    IF maxbranch = -1
       \/ \E i \in BranchIdx :
             Len(BranchPath(i)) + Len(METADIR) + Len(path) + Len(HIDETAG)
                - (IF CharAt(path, 0) = "/" THEN 1 ELSE 0) >= PATHLEN_MAX
    THEN UBOutcomes
    ELSE {"junk"}

HideFile(path, branch, ub) ==
    /\ CanRun
    /\ Ran("create", path, branch, "WHITEOUT_FILE",
           hide_file(fs, path, branch, ub))

HideDir(path, branch, ub) ==
    /\ CanRun
    /\ Ran("create", path, branch, "WHITEOUT_DIR",
           hide_dir(fs, path, branch, ub))

MaybeWhiteout(path, branch, mode, ub) ==
    /\ CanRun
    /\ Ran("maybe", path, branch, mode,
           maybe_whiteout(fs, path, branch, mode, ub))

RemoveHidden(path, maxbranch, ub) ==
    /\ CanRun
    /\ Ran("remove", path, maxbranch, "none",
           remove_hidden(fs, cow, path, maxbranch, ub))

PathHidden(path, branch) ==
    /\ CanRun
    /\ Ran("hidden", path, branch, "none",
           [fs |-> fs, res |-> path_hidden(fs, cow, path, branch),
            oob |-> FALSE, dead |-> FALSE, seen |-> {}])

Next ==
    \/ \E path \in UnionPaths, branch \in BranchIdx :
          \E ub \in UBChoices(path, 0) : HideFile(path, branch, ub)
    \/ \E path \in UnionPaths, branch \in BranchIdx :
          \E ub \in UBChoices(path, 0) : HideDir(path, branch, ub)
    \/ \E path \in UnionPaths, branch \in BranchIdx, mode \in Modes :
          \E ub \in UBChoices(path, 0) :
             MaybeWhiteout(path, branch, mode, ub)
    \/ \E path \in UnionPaths, maxbranch \in -1 .. (nbranches - 1) :
          \E ub \in UBChoices(path, maxbranch) :
             RemoveHidden(path, maxbranch, ub)
    \/ \E path \in UnionPaths, branch \in BranchIdx :
          PathHidden(path, branch)

Spec == Init /\ [][Next]_vars

\* The same operations on a union mounted without the cow option.
InitNoCow ==
    /\ fs \in InitialFs
    /\ cow = FALSE
    /\ last = NoOp
    /\ fs0 = fs
    /\ crashed = FALSE
    /\ nops = 0
    /\ bp = Idle
    /\ wt = Idle
    /\ so = Idle
    /\ sh = Idle
    /\ rc = Idle

SpecNoCow == InitNoCow /\ [][Next]_vars

-----------------------------------------------------------------------------
(* remove_hidden on a union that has been in use: the Metadata Trees hold  *)
(* markers left by earlier operations.                                     *)

\* What the Metadata Tree of branch i can hold: nothing; a file marker or
\* an empty directory marker for /a; a directory marker for /a that is not
\* empty; file markers for /a and for /a/b.
LeftOvers(i) ==
    LET meta == Split(BranchPath(i) \o METADIR)
        top  == { <<meta, "dir">> }
        a    == meta \o << <<"a">> \o HIDETAG >>
    IN  { {},
          top \cup { <<a, "file">> },
          top \cup { <<a, "dir">> },
          top \cup { <<a, "dir">>, <<a \o << <<"c">> >>, "file">> },
          top \cup { <<a, "file">>,
                     <<meta \o << <<"a">> >>, "dir">>,
                     <<meta \o << <<"a">>, <<"b">> \o HIDETAG >>, "file">> } }

UsedFs ==
    { { << <<BranchRoot(0)>>, "dir" >>, << <<BranchRoot(1)>>, "dir" >> }
        \cup d1 \cup l0 \cup l1 :
      d1 \in DataTrees(1), l0 \in LeftOvers(0), l1 \in LeftOvers(1) }

InitRemove ==
    /\ fs \in UsedFs
    /\ cow \in BOOLEAN
    /\ last = NoOp
    /\ fs0 = fs
    /\ crashed = FALSE
    /\ nops = 0
    /\ bp = Idle
    /\ wt = Idle
    /\ so = Idle
    /\ sh = Idle
    /\ rc = Idle

NextRemove ==
    \E path \in UnionPaths, maxbranch \in -1 .. (nbranches - 1) :
       \E ub \in UBChoices(path, maxbranch) :
          RemoveHidden(path, maxbranch, ub)

SpecRemove == InitRemove /\ [][NextRemove]_vars

-----------------------------------------------------------------------------
(* build_path on its own: one call with any capacity and segment list *)

SegChars == {"/", "a"}
Strings(chars, n) == UNION {[1 .. k -> chars] : k \in 0 .. n}
Segments == Strings(SegChars, MaxSegLen)
SegmentLists == UNION {[1 .. k -> Segments] : k \in 0 .. MaxSegs}

InitBuild ==
    /\ fs = {} /\ cow = TRUE /\ last = NoOp /\ fs0 = {}
    /\ crashed = FALSE /\ nops = 0 /\ wt = Idle
    /\ so = Idle /\ sh = Idle /\ rc = Idle
    /\ bp \in [st : {"call"}, max_len : 0 .. MaxBuf, args : SegmentLists]

BuildPath ==
    /\ bp.st = "call"
    /\ bp' = [st |-> "ret", max_len |-> bp.max_len, args |-> bp.args,
              out |-> build_path(bp.max_len, bp.args)]
    /\ UNCHANGED <<fs, cow, last, fs0, crashed, nops, wt, so, sh, rc>>

NextBuild == BuildPath

SpecBuild == InitBuild /\ [][NextBuild]_vars

-----------------------------------------------------------------------------
(* whiteout_tag on its own: one call with any name *)

\* A name is a concatenation of pieces: plain characters, the tag, and
\* fragments of the tag.
Pieces == { <<"a">>, HIDETAG, <<"_">>, <<"_", "H">>, <<"~">> }

RECURSIVE Names(_)
Names(n) ==
    IF n = 0 THEN { <<>> }
    ELSE Names(n - 1) \cup {x \o y : x \in Names(n - 1), y \in Pieces}

InitTag ==
    /\ fs = {} /\ cow = TRUE /\ last = NoOp /\ fs0 = {}
    /\ crashed = FALSE /\ nops = 0 /\ bp = Idle
    /\ so = Idle /\ sh = Idle /\ rc = Idle
    /\ wt \in [st : {"call"}, name : Names(MaxPieces)]

WhiteoutTag ==
    /\ wt.st = "call"
    /\ wt' = [st |-> "ret", name |-> wt.name, out |-> whiteout_tag(wt.name)]
    /\ UNCHANGED <<fs, cow, last, fs0, crashed, nops, bp, so, sh, rc>>

NextTag == WhiteoutTag

SpecTag == InitTag /\ [][NextTag]_vars

-----------------------------------------------------------------------------
(* set_owner on its own: one call for any acting identity *)

Ids == 0 .. MaxId

\* What lchown can answer: success, EPERM, ENOENT, EACCES.
LchownErrnos == {0, 1, 2, 13}

InitOwner ==
    /\ fs = {} /\ cow = TRUE /\ last = NoOp /\ fs0 = {}
    /\ crashed = FALSE /\ nops = 0 /\ bp = Idle /\ wt = Idle
    /\ sh = Idle /\ rc = Idle
    /\ so \in [st : {"call"}, uid : Ids, gid : Ids, owner : Ids \X Ids,
               err : LchownErrnos]

SetOwner ==
    /\ so.st = "call"
    /\ so' = [st |-> "ret", uid |-> so.uid, gid |-> so.gid,
              owner |-> so.owner, err |-> so.err,
              out |-> set_owner([uid |-> so.uid, gid |-> so.gid],
                                so.owner, so.err)]
    /\ UNCHANGED <<fs, cow, last, fs0, crashed, nops, bp, wt, sh, rc>>

NextOwner == SetOwner

SpecOwner == InitOwner /\ [][NextOwner]_vars


-----------------------------------------------------------------------------
(* Vocabulary of the properties *)

\* The directory that holds the Metadata Tree of branch b.
MetaRoot(b) == Split(BranchPath(b) \o METADIR)

IsPrefix(a, c) == Len(a) <= Len(c) /\ SubSeq(c, 1, Len(a)) = a

\* Entry e lies in the Metadata Tree of branch b.
InMeta(e, b) == IsPrefix(MetaRoot(b), e[1])

\* The place of the marker of the entry with components comps (not the
\* root): the mirrored location, the name followed by the tag.
MarkerPlace(b, comps) ==
    MetaRoot(b) \o SubSeq(comps, 1, Len(comps) - 1)
                \o << comps[Len(comps)] \o HIDETAG >>

\* A marker of either kind for comps exists in branch b.
MarkerAt(f, b, comps) == KindOf(f, MarkerPlace(b, comps)) # "none"

\* A marker exists for some component-aligned prefix of path.
PrefixMarked(f, b, path) ==
    \E n \in 1 .. Len(Split(path)) : MarkerAt(f, b, SubSeq(Split(path), 1, n))

\* Union path q is p or lies below p.
NestedUnder(q, p) == IsPrefix(Split(p), Split(q))

\* Branch i holds an entry at the union path.
BranchHas(f, i, path) == Resolve(f, BranchPath(i) \o path) # "none"

\* What differs between two filesystems.
Changed(f, g) == (f \ g) \cup (g \ f)

\* The length of non-empty segments joined with one separator inserted
\* where neither side has one and one dropped where both have one.
RECURSIVE JoinedLen(_)
JoinedLen(args) ==
    IF Len(args) = 0 THEN 0
    ELSE IF Len(args) = 1 THEN Len(args[1])
    ELSE LET a == args[1]
             b == args[2]
         IN  Len(a)
             + (IF a[Len(a)] = "/" /\ b[1] = "/" THEN -1
                ELSE IF a[Len(a)] # "/" /\ b[1] # "/" THEN 1 ELSE 0)
             + JoinedLen(Tail(args))

NonEmptySegments(args) ==
    Len(args) >= 1 /\ \A i \in 1 .. Len(args) : Len(args[i]) >= 1

\* The marker path of a union path in branch b, with its terminator, fits
\* a buffer of PATHLEN_MAX bytes.
Fits(b, path) ==
    JoinedLen(<<BranchPath(b), METADIR, path>>) + Len(HIDETAG) + 1
       <= PATHLEN_MAX

-----------------------------------------------------------------------------
(* C1 *)

\* C1 (as claimed): create_whiteout is idempotent for both kinds.  When
\* hide_file or hide_dir has succeeded and is called again with the same
\* path and branch, the second call changes nothing and reports success.
C1_CreateIdempotent ==
    (last.op = "create" /\ last.again /\ ~crashed)
        => (fs = fs0 /\ last.res = 0)

-----------------------------------------------------------------------------
(* C2 *)

\* C2 (as claimed): right after create_whiteout(P, B, kind) returned
\* success, is_hidden(Q, B) is true (not 0) for Q = P and for every Q nested
\* under P, also for paths with repeated or trailing separators.  Stated
\* for the paths Q whose marker path fits the buffer.
C2_HiddenAfterCreate ==
    (last.op = "create" /\ last.res = 0 /\ ~crashed)
        => \A q \in UnionPaths :
              (NestedUnder(q, last.path) /\ Fits(last.branch, q))
                 => path_hidden(fs, cow, q, last.branch) # 0

-----------------------------------------------------------------------------
(* C3 *)

\* C3 (as claimed, and allowing for a reported NameTooLong): with COW
\* enabled, is_hidden(path, B) returns true exactly when a marker exists in
\* B's Metadata Tree for a component-aligned prefix of path, and false
\* when none has one.
C3_HiddenIffPrefixMarked ==
    (last.op = "hidden" /\ cow)
        => \/ last.res = -ENAMETOOLONG
           \/ /\ last.res \in {0, 1}
              /\ (last.res = 1) <=> PrefixMarked(fs, last.branch, last.path)


-----------------------------------------------------------------------------
(* C4 *)

\* Some branch ranked below b holds an entry at path.
LowerHas(f, b, path) == \E j \in BranchIdx : j > b /\ BranchHas(f, j, path)

\* Some branch, of any rank, holds an entry at path.
AnyHas(f, path) == \E j \in BranchIdx : BranchHas(f, j, path)

-----------------------------------------------------------------------------
(* C5 *)

\* The end-to-end case: branch 0 is empty, the path names a file in the
\* read-only branch 1, and maybe_create_whiteout(path, 0, File) has run.
EndToEnd ==
    /\ last.op = "maybe" /\ last.branch = 0 /\ last.mode = "WHITEOUT_FILE"
    /\ Resolve(fs0, BranchPath(1) \o last.path) = "file"
    /\ \A e \in fs0 : IsPrefix(<<BranchRoot(0)>>, e[1]) => Len(e[1]) = 1

\* C5: create_whiteout and maybe_create_whiteout on branch B change only
\* entries of B's Metadata Tree: no data tree and no other branch's Metadata
\* Tree changes, and nothing is ever removed.  In the end-to-end case the
\* call succeeds, the file is still in branch 1, its marker is a file at the
\* mirrored place of branch 0 and is_hidden(path, 0) is true.
C5_OnlyOwnMetadataTree ==
    /\ last.op \in {"create", "maybe"}
          => /\ \A e \in Changed(fs, fs0) : InMeta(e, last.branch)
             /\ fs0 \subseteq fs
    /\ EndToEnd
          => /\ last.res = 0 /\ ~last.oob /\ ~crashed
             /\ Resolve(fs, BranchPath(1) \o last.path) = "file"
             /\ KindOf(fs, MarkerPlace(0, Split(last.path))) = "file"
             /\ path_hidden(fs, cow, last.path, 0) = 1

\* The end-to-end case has happened, and so has a whiteout in branch 1.
C5_Witness ==
    /\ EndToEnd /\ path_hidden(fs, cow, last.path, 0) = 1
    /\ \E e \in fs : InMeta(e, 1)

-----------------------------------------------------------------------------
(* C6 *)

\* C6 (as claimed, and allowing for NameTooLong when the marker path does
\* not fit): remove_whiteouts(path, max_branch) reports success, also when
\* no marker exists, and leaves no marker for path in branches
\* 0..max_branch.
C6_RemoveSucceeds ==
    (last.op = "remove" /\ cow /\ ~crashed
       /\ \A i \in BranchIdx : Fits(i, last.path))
        => /\ last.res = 0
           /\ \A i \in 0 .. last.branch :
                 ~MarkerAt(fs, i, Split(last.path))

-----------------------------------------------------------------------------
(* C9 *)

\* C9 (as claimed): no whiteout operation writes at or past index
\* PATHLEN_MAX of a path buffer.
C9_NoWritePastPathlenMax == ~last.oob


-----------------------------------------------------------------------------
(* C7 *)

\* C7 (as claimed): whatever the capacity max_len (here: at least one byte)
\* and the segments (here: non-empty ones), build_path writes no byte at an
\* index >= max_len: neither a segment, nor a separator, nor the terminator.
C7_NoWritePastMaxLen ==
    (bp.st = "ret" /\ bp.max_len >= 1 /\ NonEmptySegments(bp.args))
        => bp.out.wmax < bp.max_len

-----------------------------------------------------------------------------
(* C8 *)

\* The components of all the segments, in order.
RECURSIVE AllComponents(_)
AllComponents(args) ==
    IF Len(args) = 0 THEN <<>>
    ELSE Split(args[1]) \o AllComponents(Tail(args))

HasDoubled(s) == \E i \in 1 .. (Len(s) - 1) : s[i] = "/" /\ s[i + 1] = "/"

RECURSIVE StripLeading(_)
StripLeading(s) ==
    IF Len(s) > 0 /\ s[1] = "/" THEN StripLeading(Tail(s)) ELSE s

RECURSIVE StripTrailing(_)
StripTrailing(s) ==
    IF Len(s) > 0 /\ s[Len(s)] = "/"
    THEN StripTrailing(SubSeq(s, 1, Len(s) - 1)) ELSE s

\* Segment i without the separators it brings to its junctions.
Core(args, i) ==
    LET a == IF i > 1 THEN StripLeading(args[i]) ELSE args[i]
    IN  IF i < Len(args) THEN StripTrailing(a) ELSE a

\* The result is the segments in order, none of their names merged or lost,
\* starting and ending as the first and the last segment do.
InOrder(args, buf) ==
    /\ Split(buf) = AllComponents(args)
    /\ (buf[1] = "/") <=> (args[1][1] = "/")
    /\ (buf[Len(buf)] = "/")
          <=> (args[Len(args)][Len(args[Len(args)])] = "/")

\* C8 (as claimed): for non-empty segments whose joined length is at most
\* max_len, build_path succeeds and the result is the segments in order with
\* exactly one separator at every junction: a doubled separator in the
\* result lies inside one segment, away from its junctions.
C8_JoinedWithinMaxLen ==
    (bp.st = "ret" /\ NonEmptySegments(bp.args)
       /\ JoinedLen(bp.args) <= bp.max_len)
        => /\ bp.out.res = 0
           /\ InOrder(bp.args, bp.out.buf)
           /\ HasDoubled(bp.out.buf)
                 => \E i \in 1 .. Len(bp.args) : HasDoubled(Core(bp.args, i))

\* C8 (amended): for non-empty segments whose joined length plus the
\* terminator is at most max_len, build_path succeeds; the result has the
\* joined length, is terminated right behind its last byte, and is the
\* segments in order with a separator at every junction; it holds a doubled
\* separator only if a segment holds one.
C8_JoinedWithinCapacity ==
    (bp.st = "ret" /\ NonEmptySegments(bp.args)
       /\ JoinedLen(bp.args) + 1 <= bp.max_len)
        => /\ bp.out.res = 0
           /\ Len(bp.out.buf) = JoinedLen(bp.args)
           /\ bp.out.wmax = Len(bp.out.buf)
           /\ InOrder(bp.args, bp.out.buf)
           /\ HasDoubled(bp.out.buf)
                 => \E i \in 1 .. Len(bp.args) : HasDoubled(bp.args[i])

\* build_path has joined three segments that fill the buffer to its last
\* byte, inserting a separator at one junction and dropping one at another.
C8_Witness ==
    /\ bp.st = "ret" /\ Len(bp.args) = 3 /\ NonEmptySegments(bp.args)
    /\ JoinedLen(bp.args) + 1 = bp.max_len
    /\ bp.out.res = 0
    /\ \E i \in 1 .. 2 : bp.args[i][Len(bp.args[i])] # "/"
                          /\ bp.args[i + 1][1] # "/"
    /\ \E i \in 1 .. 2 : bp.args[i][Len(bp.args[i])] = "/"
                          /\ bp.args[i + 1][1] = "/"

-----------------------------------------------------------------------------
(* C10 *)

EndsWithTag(name) ==
    /\ Len(name) >= Len(HIDETAG)
    /\ SubSeq(name, Len(name) - Len(HIDETAG) + 1, Len(name)) = HIDETAG

\* C10 (as claimed): whiteout_tag(name) returns the offset
\* len(name) - len(TAG) exactly when name ends with TAG behind a non-empty
\* prefix, and None otherwise, also when TAG occurs more than once.
C10_TagIffSuffix ==
    wt.st = "ret"
        => IF EndsWithTag(wt.name) /\ Len(wt.name) > Len(HIDETAG)
           THEN wt.out = Len(wt.name) - Len(HIDETAG)
           ELSE wt.out = -1

-----------------------------------------------------------------------------
(* string_hash on its own: one call with any byte string, in a build with  *)
(* signed or with unsigned char                                            *)

\* The byte values tried: 'a', 'b', and two bytes with the top bit set.
HashBytes == {97, 98, 128, 255}

ByteStrings == UNION {[1 .. k -> HashBytes] : k \in 0 .. MaxHashLen}

InitHash ==
    /\ fs = {} /\ cow = TRUE /\ last = NoOp /\ fs0 = {}
    /\ crashed = FALSE /\ nops = 0 /\ bp = Idle /\ wt = Idle
    /\ so = Idle /\ rc = Idle
    /\ sh \in [st : {"call"}, str : ByteStrings, schar : BOOLEAN]

StringHash ==
    /\ sh.st = "call"
    /\ sh' = [st |-> "ret", str |-> sh.str, schar |-> sh.schar,
              out |-> string_hash(sh.str, sh.schar)]
    /\ UNCHANGED <<fs, cow, last, fs0, crashed, nops, bp, wt, so, rc>>

NextHash == StringHash

SpecHash == InitHash /\ [][NextHash]_vars

-----------------------------------------------------------------------------
(* Two threads of the request dispatcher inside do_create_whiteout at the  *)
(* same time, with the same path, branch and mode.  Every call to the host *)
(* filesystem is one atomic step; there is no lock in between.             *)

Threads == {1, 2}

\* The paths the two calls are made with: plain, nested, with doubled
\* separators and with a trailing one.
RacePaths ==
    { <<"/", "a">>,
      <<"/", "a", "/", "b">>,
      <<"/", "/", "a", "/", "/", "b">>,
      <<"/", "a", "/">> }

\* The filesystems the calls start from: the branches as mounted, or with
\* one whiteout made before.
RaceFs ==
    InitialFs
    \cup { do_create_whiteout(f, p, b, m, "junk").fs :
             f \in InitialFs, p \in {<<"/", "a">>, <<"/", "a", "/", "b">>},
             b \in BranchIdx, m \in Modes }

\* The directories path_create_cutlast walks for the call: the components
\* of the branch root followed by those of u_dirname(metapath).
RaceDirs == Split(BranchPath(rc.branch) \o u_dirname(rc.metapath))

\* create_marker that takes an existing marker away instead of keeping it.
create_marker_replacing(f, p, mode) ==
    IF Resolve(f, p) = "file" THEN sys_unlink(f, p)
    ELSE IF Resolve(f, p) = "dir" THEN sys_rmdir(f, p)
    ELSE IF mode = "WHITEOUT_FILE" THEN sys_open_creat(f, p)
    ELSE sys_mkdir(f, p)

\* The last step of do_create_whiteout: open(O_CREAT) and close, or mkdir.
create_marker(f, p, mode) ==
    IF mode = "WHITEOUT_FILE" THEN sys_open_creat(f, p) ELSE sys_mkdir(f, p)

Thread0 == [pc |-> "check", n |-> 1, res |-> 0, lost |-> FALSE]

InitRace ==
    /\ cow = TRUE /\ last = NoOp
    /\ crashed = FALSE /\ nops = 0 /\ bp = Idle /\ wt = Idle
    /\ so = Idle /\ sh = Idle
    /\ fs \in RaceFs
    /\ fs0 = fs
    /\ \E path \in RacePaths, branch \in BranchIdx, mode \in Modes :
          rc = [st |-> "run", path |-> path, branch |-> branch, mode |-> mode,
                metapath |-> BUILD_PATH(<<METADIR, path>>).buf,
                th |-> [t \in Threads |-> Thread0]]

\* path_create: stat of the next directory of the walk.  One that exists
\* is stepped over, a file in its place ends the walk.
RaceCheck(t) ==
    /\ rc.st = "run" /\ rc.th[t].pc = "check"
    /\ LET me == rc.th[t]
           k  == IF me.n > Len(RaceDirs) THEN "end"
                 ELSE KindOf(fs, SubSeq(RaceDirs, 1, me.n))
       IN  rc' = [rc EXCEPT !.th[t] =
                    IF k = "end" THEN [me EXCEPT !.pc = "mark"]
                    ELSE IF k = "dir" THEN [me EXCEPT !.n = me.n + 1]
                    ELSE IF k = "file" THEN [me EXCEPT !.pc = "mark"]
                    ELSE [me EXCEPT !.pc = "mkdir"]]
    /\ UNCHANGED <<fs, cow, last, fs0, crashed, nops, bp, wt, so, sh>>

\* path_create: mkdir of the directory found missing.  When the other
\* thread has made it in between, mkdir fails and the walk ends there;
\* do_create_whiteout ignores what path_create_cutlast returns.
RaceMkdir(t) ==
    /\ rc.st = "run" /\ rc.th[t].pc = "mkdir"
    /\ LET me == rc.th[t]
           c  == SubSeq(RaceDirs, 1, me.n)
       IN  IF KindOf(fs, c) = "none"
           THEN /\ fs' = fs \cup {<<c, "dir">>}
                /\ rc' = [rc EXCEPT !.th[t] =
                             [me EXCEPT !.pc = "check", !.n = me.n + 1]]
           ELSE /\ fs' = fs
                /\ rc' = [rc EXCEPT !.th[t] =
                             [me EXCEPT !.pc = "mark", !.lost = TRUE]]
    /\ UNCHANGED <<cow, last, fs0, crashed, nops, bp, wt, so, sh>>

\* BUILD_PATH of the marker path, strcat of the tag, open or mkdir.
RaceMark(t) ==
    /\ rc.st = "run" /\ rc.th[t].pc = "mark"
    /\ LET me   == rc.th[t]
           b    == BUILD_PATH(<<BranchPath(rc.branch), rc.metapath>>)
           made == create_marker(fs, b.buf \o HIDETAG, rc.mode)
       IN  IF b.res # 0
           THEN /\ fs' = fs
                /\ rc' = [rc EXCEPT !.th[t] =
                             [me EXCEPT !.pc = "done", !.res = -1]]
           ELSE /\ fs' = made.fs
                /\ rc' = [rc EXCEPT !.th[t] =
                             [me EXCEPT !.pc = "done", !.res = made.res]]
    /\ UNCHANGED <<cow, last, fs0, crashed, nops, bp, wt, so, sh>>

NextRace ==
    \/ \E t \in Threads : RaceCheck(t)
    \/ \E t \in Threads : RaceMkdir(t)
    \/ \E t \in Threads : RaceMark(t)

SpecRace == InitRace /\ [][NextRace]_vars

-----------------------------------------------------------------------------
(* C11 *)

\* C11 (as claimed): set_owner applies the acting identity's user and group
\* to the entry whenever the acting user is not the superuser (uid # 0),
\* whatever its group id, and skips the change only for uid = 0.
C11_AppliedUnlessSuperuser ==
    so.st = "ret"
        => /\ so.out.called <=> (so.uid # 0)
           /\ (so.uid # 0 /\ so.err = 0)
                 => so.out.owner = <<so.uid, so.gid>>
-----------------------------------------------------------------------------
(* C12 *)

\* The fixed procedure: start at 0; per byte c, taken as an unsigned byte,
\* hash = (hash << 4) + c modulo 2^32; high = hash & 0xF0000000; if high is
\* not 0 then hash ^= high >> 24; hash &= ~high.  The sum is taken in two
\* parts, bits 0..27 (rest) and bits 28..31 (high, as a nibble).
RECURSIVE FixedHash(_, _)
FixedHash(str, hash) ==
    IF str = <<>> THEN hash
    ELSE LET part == (hash % (2 ^ 24)) * 16 + Head(str)
             high == ((hash \div (2 ^ 24)) + (part \div (2 ^ 28))) % 16
             rest == part % (2 ^ 28)
         IN  FixedHash(Tail(str),
                       IF high # 0
                       THEN rest - (rest % 256)
                            + BitXor(rest % 256, high * 16)
                       ELSE rest)

\* C12 (as claimed): for every byte string over the byte values 0x01..0xFF
\* string_hash returns exactly the value of the fixed 32-bit procedure;
\* "" gives 0, "a" gives 97 and "ab" gives 1650.
C12_HashIsFixedProcedure ==
    sh.st = "ret"
        => /\ sh.out = FixedHash(sh.str, 0)
           /\ sh.str = <<>> => sh.out = 0
           /\ sh.str = <<97>> => sh.out = 97
           /\ sh.str = <<97, 98>> => sh.out = 1650

\* C12, in a build where char is unsigned: the same statement.
C12_UnsignedCharBuild == sh.schar \/ C12_HashIsFixedProcedure
-----------------------------------------------------------------------------
(* C13 *)

\* Both calls have returned.
RaceDone == rc.st = "run" /\ \A t \in Threads : rc.th[t].pc = "done"

\* What one call alone makes of the filesystem the two calls started from.
SingleCall == do_create_whiteout(fs0, rc.path, rc.branch, rc.mode, "junk")

\* The entries at the marker's place.
MarkersAt(f, b, comps) == {e \in f : e[1] = MarkerPlace(b, comps)}

\* The marker the two calls are to make: an entry of the kind asked for at
\* the mirrored location.
RaceMarker ==
    << MarkerPlace(rc.branch, Split(rc.path)),
       IF rc.mode = "WHITEOUT_FILE" THEN "file" ELSE "dir" >>

\* C13: for any interleaving of two concurrent create_whiteout calls for
\* the same path, branch and kind, the final filesystem is the one a single
\* call leaves, whichever call wins; where the single call succeeds in
\* placing the marker at the mirrored location, the final state holds
\* exactly one marker there, of that kind, and one of the two calls reports
\* what the single call reports.
C13_RaceEqualsSingleCall ==
    RaceDone
        => /\ fs = SingleCall.fs
           /\ \E t \in Threads : rc.th[t].res = SingleCall.res
           /\ (SingleCall.res = 0 /\ RaceMarker \in SingleCall.fs)
                 => MarkersAt(fs, rc.branch, Split(rc.path)) = {RaceMarker}

\* Both calls have returned, one of them after losing the race for a
\* directory of the Metadata Tree, and the marker is in place.
C13_Witness ==
    /\ RaceDone
    /\ \E t \in Threads : rc.th[t].lost
    /\ fs # fs0
    /\ RaceMarker \in fs
-----------------------------------------------------------------------------
(* C14 *)

\* C14: when COW mode is disabled, is_hidden returns false for every path
\* and every branch, whatever markers exist in the Metadata Trees.
C14_NeverHiddenWithoutCow ==
    ~cow => /\ last.op = "hidden" => last.res = 0
            /\ \A p \in UnionPaths, b \in BranchIdx :
                  path_hidden(fs, cow, p, b) = 0

\* With COW disabled is_hidden was asked about a path that has a marker in
\* the branch, and it returned false.
C14_Witness ==
    /\ ~cow /\ last.op = "hidden" /\ last.res = 0
    /\ MarkerAt(fs, last.branch, Split(last.path))
-----------------------------------------------------------------------------
(* C15 *)

\* Path construction fails in the operation that ran last: a BUILD_PATH of
\* is_hidden, of create_whiteout or, for one of the branches 0..max_branch,
\* of remove_whiteouts returns an error.
ConstructionFails ==
    \/ /\ last.op = "hidden" /\ cow
       /\ BUILD_PATH(<<BranchPath(last.branch), METADIR, last.path>>).res # 0
    \/ /\ last.op = "create"
       /\ \/ BUILD_PATH(<<METADIR, last.path>>).res # 0
          \/ BUILD_PATH(<<BranchPath(last.branch),
                           BUILD_PATH(<<METADIR, last.path>>).buf>>).res # 0
    \/ /\ last.op = "remove" /\ cow /\ last.branch >= 0
       /\ \E i \in 0 .. last.branch :
             BUILD_PATH(<<BranchPath(i), METADIR, last.path>>).res # 0

\* C15 (as claimed): in is_hidden, create_whiteout and remove_whiteouts a
\* path-construction failure aborts the operation before any filesystem
\* change and the caller receives that error: NameTooLong is reported as
\* NameTooLong, never as another error or as a normal result.
C15_ConstructionErrorUnmodified ==
    (ConstructionFails /\ ~crashed)
        => (last.res = -ENAMETOOLONG /\ fs = fs0)

\* C15, for remove_whiteouts alone: the one operation that does report
\* NameTooLong and, the branch roots being equally long, before any change.
C15_RemoveReportsNameTooLong ==
    (ConstructionFails /\ last.op = "remove" /\ ~crashed)
        => (last.res = -ENAMETOOLONG /\ fs = fs0)
-----------------------------------------------------------------------------
(* C16 *)

\* The branches remove_whiteouts(path, max_branch) is to clean.
RemoveRange(maxbranch) ==
    0 .. (IF maxbranch = -1 THEN nbranches - 1 ELSE maxbranch)

\* The marker path remove_whiteouts computes for branch i.
RemovePath(i, path) ==
    BUILD_PATH(<<BranchPath(i), METADIR, path>>).buf \o HIDETAG

\* remove_whiteouts cannot construct the marker path of branch i.
RemoveTooLong(i, path) ==
    \/ BUILD_PATH(<<BranchPath(i), METADIR, path>>).res # 0
    \/ Len(RemovePath(i, path)) > PATHLEN_MAX

\* The marker at p can be deleted: a file, or a directory that is empty.
Deletable(f, p) ==
    \/ Resolve(f, p) = "file"
    \/ Resolve(f, p) = "dir" /\ ~HasChildren(f, Split(p))

\* C16: in remove_whiteouts a failed deletion of a marker in one branch (a
\* marker directory that is not empty) is not escalated.  Unless a path
\* construction fails, the loop processes every branch up to max_branch:
\* each marker that can be deleted is deleted also behind one that cannot,
\* the one that cannot stays.  The operation reports success; the only
\* error it ever reports is the one of a failed path construction.
C16_DeletionFailureNotEscalated ==
    (last.op = "remove" /\ cow /\ ~crashed)
        => /\ last.res \in {0, -ENAMETOOLONG}
           /\ (\A i \in RemoveRange(last.branch) :
                   ~RemoveTooLong(i, last.path))
                 => /\ RemoveRange(last.branch) \subseteq last.seen
                    /\ last.res # 0 => last.seen \ BranchIdx # {}
                    /\ \A i \in RemoveRange(last.branch) :
                          LET p == RemovePath(i, last.path)
                          IN  IF Deletable(fs0, p)
                              THEN Resolve(fs, p) = "none"
                              ELSE Resolve(fs, p) = Resolve(fs0, p)

\* remove_whiteouts met a marker directory that is not empty in branch 0,
\* left it, went on to delete the marker of branch 1 and reported success.
C16_Witness ==
    /\ last.op = "remove" /\ cow /\ ~crashed /\ last.branch = 1
    /\ last.res = 0
    /\ Resolve(fs0, RemovePath(0, last.path)) = "dir"
    /\ ~Deletable(fs0, RemovePath(0, last.path))
    /\ Resolve(fs, RemovePath(0, last.path)) = "dir"
    /\ Resolve(fs0, RemovePath(1, last.path)) = "file"
    /\ Resolve(fs, RemovePath(1, last.path)) = "none"
-----------------------------------------------------------------------------
(* C17 *)

\* C17 (as claimed): remove_whiteouts only reads branch indices that
\* exist.  For max_branch in 0..nbranches-1 it visits the indices
\* 0..max_branch, for "all" (max_branch = -1) the indices 0..nbranches-1,
\* all of them unless a path construction stops it, and never an index
\* >= nbranches.
C17_OnlyExistingBranches ==
    (last.op = "remove" /\ cow)
        => /\ last.seen \subseteq RemoveRange(last.branch)
           /\ (last.res = 0 /\ ~crashed)
                 => last.seen = RemoveRange(last.branch)

\* C17, for a max_branch the caller names: the same statement.
C17_GivenMaxBranch ==
    last.branch = -1 \/ C17_OnlyExistingBranches
-----------------------------------------------------------------------------
(* C18 *)

\* The marker path create_whiteout computes for branch i.
CreatePath(i, path) ==
    BUILD_PATH(<<BranchPath(i), BUILD_PATH(<<METADIR, path>>).buf>>).buf
        \o HIDETAG

\* The step that closes a round trip: create_whiteout(P, B, kind) has run
\* from a state where no prefix of P had a marker in B, and now
\* remove_whiteouts(P, max_branch) runs, with max_branch >= B or "all", and
\* returns.
RoundTripStep ==
    /\ last.op = "create"
    /\ ~PrefixMarked(fs0, last.branch, last.path)
    /\ last'.op = "remove" /\ nops' = nops + 1
    /\ last'.path = last.path
    /\ last'.branch = -1 \/ last'.branch >= last.branch
    /\ ~crashed'

\* After the round trip is_hidden(P, B) is not true: it answers what it
\* answered before the creation.  Every marker the creation made is gone,
\* and the marker path of the removal is the one of the creation.
RoundTripDone ==
    /\ path_hidden(fs', cow, last.path, last.branch) # 1
    /\ path_hidden(fs', cow, last.path, last.branch)
          = path_hidden(fs0, cow, last.path, last.branch)
    /\ \A e \in fs \ fs0 :
          EndsWithTag(e[1][Len(e[1])]) => e \notin fs'
    /\ ~RemoveTooLong(last.branch, last.path)
          => RemovePath(last.branch, last.path)
               = CreatePath(last.branch, last.path)

\* C18: round trip.  From a state where no prefix of P has a marker in
\* branch B, create_whiteout(P, B, kind) followed by remove_whiteouts(P,
\* max_branch) with max_branch >= B (or "all") makes is_hidden(P, B) false
\* again, for both kinds; the removal computes the marker path the creation
\* computed.
C18_RoundTrip == [][RoundTripStep => RoundTripDone]_vars

\* A round trip in branch 1: the marker was there and P hidden before the
\* removal, and after it the marker is gone and P is not hidden.
C18_Witness ==
    /\ last.op = "remove" /\ nops = 2 /\ ~crashed
    /\ last.branch \in {-1, 1}
    /\ MarkerAt(fs0, 1, Split(last.path))
    /\ path_hidden(fs0, cow, last.path, 1) = 1
    /\ ~MarkerAt(fs, 1, Split(last.path))
    /\ path_hidden(fs, cow, last.path, 1) = 0
-----------------------------------------------------------------------------
(* C19 *)

\* C19: remove_whiteouts(P, max_branch) only takes entries away, and only
\* the marker of P in the branches 0..max_branch.  It leaves unchanged
\* every marker of another path, those of P's ancestors and descendants
\* included, every marker in a branch with an index > max_branch and every
\* data-tree entry; with COW disabled it changes nothing at all.
C19_RemoveFrame ==
    last.op = "remove"
        => /\ ~cow => (fs = fs0 /\ last.res = 0)
           /\ fs \subseteq fs0
           /\ \A e \in fs0 \ fs :
                 \E i \in RemoveRange(last.branch) :
                    /\ ~RemoveTooLong(i, last.path)
                    /\ e[1] = Split(RemovePath(i, last.path))
           /\ \A e \in fs0 \ fs : \E i \in BranchIdx : InMeta(e, i)
           /\ \A q \in UnionPaths, i \in BranchIdx :
                 (Split(q) # Split(last.path)
                    \/ i \notin RemoveRange(last.branch))
                   => KindOf(fs, MarkerPlace(i, Split(q)))
                        = KindOf(fs0, MarkerPlace(i, Split(q)))

\* remove_whiteouts(/a, 0) ran where both branches held markers for /a and
\* for /a/b: it took the marker of /a in branch 0 and nothing else.
C19_Witness ==
    /\ last.op = "remove" /\ cow /\ last.branch = 0 /\ last.res = 0
    /\ Split(last.path) = << <<"a">> >>
    /\ \A i \in BranchIdx :
          /\ MarkerAt(fs0, i, << <<"a">> >>)
          /\ MarkerAt(fs0, i, << <<"a">>, <<"b">> >>)
          /\ MarkerAt(fs, i, << <<"a">>, <<"b">> >>)
    /\ ~MarkerAt(fs, 0, << <<"a">> >>)
    /\ MarkerAt(fs, 1, << <<"a">> >>)
    /\ Cardinality(fs0 \ fs) = 1

====
